---- MODULE Spec2Model ----
(***************************************************************************)
(* The waveform view of spiky (src/spiky/views/waveformview.py): the data  *)
(* manager, the position manager (layout), the highlight manager           *)
(* (selection and highlight mask) and the messages they send to the paint  *)
(* manager.                                                                *)
(*                                                                         *)
(* Numbers.  The program computes in floating point; the model computes in *)
(* exact rationals <<n, d>> (d > 0, lowest terms), so rounding is not      *)
(* modelled.  Arrays are functions over 0 .. n-1, as in the source.        *)
(***************************************************************************)
EXTENDS Integers, Sequences, FiniteSets, TLC

(***************************************************************************)
(* Bounds of the model.                                                    *)
(***************************************************************************)
MaxSpikes == 5

MaxChannels == 2

MaxSamples == 2

\* a number of channels whose box height is below box_size_min
ManyChannels == 200

\* a growing change_box_scale is not taken when it would make a box side
\* exceed this
MaxBoxSize == 1

\* change_probe_scale is not taken when it would make a probe scale exceed this
MaxProbeScale == 2

\* the resolution at which box distances are compared
DistResolution == 1000

(***************************************************************************)
(* Rational arithmetic.                                                    *)
(***************************************************************************)
RECURSIVE GCD(_, _)
GCD(a, b) == IF b = 0 THEN a ELSE GCD(b, a % b)

Abs(n) == IF n < 0 THEN -n ELSE n

Rat(n, d) ==
    LET s == IF d < 0 THEN -1 ELSE 1
        g == GCD(Abs(n), Abs(d))
    IN  IF n = 0 THEN <<0, 1>> ELSE <<(s * n) \div g, (s * d) \div g>>

R(n) == <<n, 1>>

\* the operations reduce by common factors before they multiply, to keep the
\* intermediate products small
RAdd(p, q) ==
    LET g == GCD(p[2], q[2])
    IN  Rat(p[1] * (q[2] \div g) + q[1] * (p[2] \div g), (p[2] \div g) * q[2])

RNeg(p) == <<-p[1], p[2]>>

RSub(p, q) == RAdd(p, RNeg(q))

RMul(p, q) ==
    LET g1 == GCD(Abs(p[1]), q[2])
        g2 == GCD(Abs(q[1]), p[2])
    IN  IF p[1] = 0 \/ q[1] = 0 THEN <<0, 1>>
        ELSE <<(p[1] \div g1) * (q[1] \div g2), (p[2] \div g2) * (q[2] \div g1)>>

\* q # 0
RDiv(p, q) == RMul(p, IF q[1] < 0 THEN <<-q[2], -q[1]>> ELSE <<q[2], q[1]>>)

RLe(p, q) ==
    LET g == GCD(p[2], q[2])
    IN  p[1] * (q[2] \div g) <= q[1] * (p[2] \div g)

RLt(p, q) ==
    LET g == GCD(p[2], q[2])
    IN  p[1] * (q[2] \div g) < q[1] * (p[2] \div g)

RMax(p, q) == IF RLe(p, q) THEN q ELSE p

RMin(p, q) == IF RLe(p, q) THEN p ELSE q

RAbs(p) == <<Abs(p[1]), p[2]>>

RSq(p) == RMul(p, p)

\* the integer part of the square root of n
ISqrt(n) == CHOOSE k \in 0 .. n : k * k <= n /\ (k + 1) * (k + 1) > n

\* np.sqrt, to one decimal place (exact on perfect squares)
Sqrt(n) == Rat(ISqrt(n * 100), 10)

\* np.linspace(a, b, n)[i], i in 0 .. n-1
Linspace(a, b, n, i) ==
    IF n = 1 THEN a ELSE RAdd(a, RDiv(RMul(R(i), RSub(b, a)), R(n - 1)))

\* the least and the greatest of the values f[x], x in S
RMinOver(f, S) == f[CHOOSE x \in S : \A y \in S : RLe(f[x], f[y])]

RMaxOver(f, S) == f[CHOOSE x \in S : \A y \in S : RLe(f[y], f[x])]

(***************************************************************************)
(* Program constants.                                                      *)
(***************************************************************************)
HIGHLIGHT_CLOSE_BOXES_COUNT == 4

alpha == Rat(2, 100)

beta == Rat(2, 100)

box_size_min == Rat(1, 100)

probe_scale_min == Rat(1, 100)

\* Python's None; also the value of an attribute that is not set yet
None == <<>>

\* an optional argument that is given; TheArg(a) is its value
Some(x) == <<x>>

TheArg(a) == a[1]

WaveformSpatialArrangement == {"Linear", "Geometrical"}

WaveformSuperposition == {"Superimposed", "Separated"}

(***************************************************************************)
(* The datasets handed to set_data.  A dataset is the arguments of the     *)
(* call: waveforms[s][t][c], clusters[s] (absolute cluster ids),           *)
(* masks[s][c] in [0,1] and the electrode positions (or None).             *)
(***************************************************************************)
\* the cluster labellings tried: one cluster; alternating 2,1,2,1,...;
\* all distinct, in descending order
Labellings == {"same", "alt", "desc"}

Labelling(l, ns) ==
    [s \in 0 .. ns - 1 |->
        CASE l = "same" -> 3
          [] l = "alt" -> 2 - (s % 2)
          [] l = "desc" -> ns - s]

\* the masks tried: nothing masked; or spike 2 masked out on every channel
\* and spike 1 masked out on channel 0 and half-masked on the others
MaskSchemes == {"full", "partial"}

Masking(m, ns, nch) ==
    [s \in 0 .. ns - 1 |-> [c \in 0 .. nch - 1 |->
        CASE m = "full" -> R(1)
          [] m = "partial" ->
                IF s = 2 THEN R(0)
                ELSE IF s = 1 THEN (IF c = 0 THEN R(0) ELSE Rat(1, 2))
                ELSE R(1)]]

\* the sample values tried: a fixed pattern over (spike, sample, channel)
Waveform(ns, nsamp, nch) ==
    [s \in 0 .. ns - 1 |-> [t \in 0 .. nsamp - 1 |-> [c \in 0 .. nch - 1 |->
        R(((2 * s + 3 * t + c) % 5) - 2)]]]

\* the electrode positions tried: None, or a two-column grid
GeoSchemes == {"none", "grid"}

Electrodes(g, nch) ==
    IF g = "none" THEN None
    ELSE [c \in 0 .. nch - 1 |-> <<R(c % 2), R(c \div 2)>>]

Dataset(ns, nsamp, nch, l, m, g) ==
    [waveforms |-> Waveform(ns, nsamp, nch),
     shape |-> <<ns, nsamp, nch>>,
     clusters |-> Labelling(l, ns),
     masks |-> Masking(m, ns, nch),
     geometrical_positions |-> Electrodes(g, nch)]

\* the datasets loaded and reloaded: one spike on one channel without
\* electrode positions, and as many spikes and clusters as channels, on a grid
Datasets ==
    {Dataset(1, 1, 1, "desc", "full", "none"),
     Dataset(MaxChannels, 1, MaxChannels, "desc", "full", "grid")}

\* the datasets selected from: two clusters or one cluster per spike, some
\* spikes masked
SelectionDatasets ==
    {Dataset(MaxSpikes, MaxSamples, nch, l, "partial", "grid") :
        nch \in 1 .. MaxChannels, l \in {"alt", "desc"}}

\* the datasets highlighted
HighlightDatasets ==
    {Dataset(ns, MaxSamples, nch, "alt", "partial", "grid") :
        ns \in 2 .. MaxSpikes, nch \in 1 .. MaxChannels}

\* the datasets scaled: few channels, or so many that the box height
\* computed is below box_size_min
BoxScaleDatasets ==
    {Dataset(1, 1, nch, "same", "full", g) :
        nch \in {1, MaxChannels, ManyChannels}, g \in GeoSchemes}

\* the datasets laid out: every number of clusters against every number of
\* channels, with and without electrode positions
LayoutDatasets ==
    {Dataset(ncl, 1, nch, "desc", "full", g) :
        ncl \in 1 .. MaxChannels + 1, nch \in 1 .. MaxChannels, g \in GeoSchemes}

\* the datasets that fail to load: the clusters, or the masks, of one spike
\* fewer or one spike more than the waveforms
InconsistentDatasets ==
    {[Dataset(ns, 1, nch, "desc", "full", "grid") EXCEPT
        !.clusters = Labelling("desc", ns + d)] :
            ns \in 1 .. MaxChannels + 1, nch \in 1 .. MaxChannels, d \in {-1, 1}}
    \cup
    {[Dataset(ns, 1, nch, "desc", "full", "grid") EXCEPT
        !.masks = Masking("full", ns + d, nch)] :
            ns \in 1 .. MaxChannels + 1, nch \in 1 .. MaxChannels, d \in {-1, 1}}

(***************************************************************************)
(* SpikeDataOrganizer (module common): spikes reordered by cluster.        *)
(***************************************************************************)
\* position of spike s after a stable sort by absolute cluster id
SortRank(clusters, s) ==
    Cardinality({k \in DOMAIN clusters :
        \/ clusters[k] < clusters[s]
        \/ clusters[k] = clusters[s] /\ k < s})

\* permutation[j]: the original index of the spike stored at position j
Permutation(clusters) ==
    [j \in DOMAIN clusters |->
        CHOOSE s \in DOMAIN clusters : SortRank(clusters, s) = j]

ClusterIds(clusters) == {clusters[s] : s \in DOMAIN clusters}

\* clusters_unique[k]: the absolute id of relative cluster k (ascending ids)
ClustersUnique(clusters) ==
    LET ids == ClusterIds(clusters)
    IN  [k \in 0 .. Cardinality(ids) - 1 |->
            CHOOSE id \in ids : Cardinality({o \in ids : o < id}) = k]

SpikeDataOrganizer(waveforms, clusters, masks) ==
    LET perm == Permutation(clusters)
        ids == ClusterIds(clusters)
        uniq == ClustersUnique(clusters)
    IN  [permutation |-> perm,
         data_reordered |-> [j \in DOMAIN perm |-> waveforms[perm[j]]],
         clusters |-> [j \in DOMAIN perm |-> clusters[perm[j]]],
         masks |-> [j \in DOMAIN perm |-> masks[perm[j]]],
         nclusters |-> Cardinality(ids),
         clusters_unique |-> uniq,
         clusters_rel |-> [j \in DOMAIN perm |->
            CHOOSE k \in DOMAIN uniq : uniq[k] = clusters[perm[j]]],
         cluster_sizes_dict |-> [id \in ids |->
            Cardinality({s \in DOMAIN clusters : clusters[s] = id})],
         cluster_sizes_cum |-> [id \in ids |->
            Cardinality({s \in DOMAIN clusters : clusters[s] < id})]]

(***************************************************************************)
(* WaveformPositionManager.  A position manager is a record of its         *)
(* attributes; a method is an operator from the record (and the            *)
(* arguments) to the record after the call.                                *)
(***************************************************************************)
PositionManagerInit ==
    [probe_scale |-> <<R(1), R(1)>>,
     box_sizes |-> [a \in WaveformSpatialArrangement |-> None],
     spatial_arrangement |-> "Linear",
     superposition |-> "Separated",
     channel_positions |-> None,
     nchannels |-> None,
     nclusters |-> None,
     diffxc |-> None,
     diffyc |-> None,
     box_positions |-> None,
     box_size |-> None]

OnePlus2(x) == RAdd(R(1), RMul(R(2), x))

\* an optional argument, or the default when it is None
ArgOr(a, default) == IF a = None THEN default ELSE TheArg(a)

\* the (w, h) find_box_size computes for an arrangement and a superposition
BoxSizeFormula(self, spatial_arrangement, superposition) ==
    CASE spatial_arrangement = "Linear" /\ superposition = "Superimposed" ->
            <<RDiv(R(2), OnePlus2(alpha)),
              RDiv(R(2), RMul(R(self.nchannels), RAdd(R(1), beta)))>>
      [] spatial_arrangement = "Linear" /\ superposition = "Separated" ->
            <<RDiv(R(2), RMul(R(self.nclusters), OnePlus2(alpha))),
              RDiv(R(2), RMul(R(self.nchannels), OnePlus2(beta)))>>
      [] spatial_arrangement = "Geometrical" /\ superposition = "Superimposed" ->
            <<RDiv(R(2), RMul(self.diffxc, OnePlus2(beta))),
              RDiv(R(2), RMul(self.diffyc, OnePlus2(beta)))>>
      [] spatial_arrangement = "Geometrical" /\ superposition = "Separated" ->
            <<RDiv(R(2), RMul(RMul(OnePlus2(alpha), OnePlus2(beta)),
                              RMul(R(self.nclusters), self.diffxc))),
              RDiv(R(2), RMul(OnePlus2(beta), self.diffyc))>>

save_box_size(self, w, h, arrangement) ==
    [self EXCEPT !.box_sizes[ArgOr(arrangement, self.spatial_arrangement)] = <<w, h>>]

\* find_box_size once (w, h) is computed: the manager after the call and the
\* size returned
FoundBoxSize(self, do_save, wh) ==
    [self |-> IF do_save THEN save_box_size(self, wh[1], wh[2], None) ELSE self,
     size |-> wh]

find_box_size(self, spatial_arrangement, superposition) ==
    FoundBoxSize(self, spatial_arrangement = None /\ superposition = None,
                 BoxSizeFormula(self, ArgOr(spatial_arrangement, self.spatial_arrangement),
                                ArgOr(superposition, self.superposition)))

\* load_box_size once the cache is filled
LoadedBoxSize(self, arrangement) ==
    [self |-> self, size |-> self.box_sizes[ArgOr(arrangement, self.spatial_arrangement)]]

load_box_size(self, arrangement) ==
    LoadedBoxSize(
        IF self.box_sizes[ArgOr(arrangement, self.spatial_arrangement)] = None
        THEN find_box_size(self, None, None).self ELSE self,
        arrangement)

\* the affine map of normalize_channel_positions, applied to every channel
Transformed(channel_positions, ax, ay, xmin, xmax, ymin, ymax) ==
    [c \in DOMAIN channel_positions |->
        <<RAdd(RMul(ax, channel_positions[c][1]),
               RMul(RMul(Rat(-1, 2), ax), RAdd(xmax, xmin))),
          RAdd(RMul(ay, channel_positions[c][2]),
               RMul(RMul(Rat(-1, 2), ay), RAdd(ymax, ymin)))>>]

\* the positions spread from edge to edge of the viewport, whatever (w, h)
NormalizedToViewport(self, channel_positions, wh, xmin, xmax, ymin, ymax) ==
    Transformed(channel_positions,
        IF xmin = xmax THEN R(0) ELSE RDiv(R(2), RSub(xmax, xmin)),
        IF ymin = ymax THEN R(0) ELSE RDiv(R(2), RSub(ymax, ymin)),
        xmin, xmax, ymin, ymax)

\* normalize_channel_positions once the data bounds and (w, h) are computed
NormalizedWithin(self, channel_positions, wh, xmin, xmax, ymin, ymax) ==
    Transformed(channel_positions,
        IF xmin = xmax THEN R(0)
        ELSE RDiv(RSub(R(2), RMul(RMul(R(self.nclusters), wh[1]), OnePlus2(alpha))),
                  RSub(xmax, xmin)),
        IF ymin = ymax THEN R(0)
        ELSE RDiv(RSub(R(2), RMul(wh[2], OnePlus2(alpha))), RSub(ymax, ymin)),
        xmin, xmax, ymin, ymax)

Column(channel_positions, n) ==
    [c \in DOMAIN channel_positions |-> channel_positions[c][n]]

normalize_channel_positions(self, spatial_arrangement, channel_positions) ==
    NormalizedWithin(self, channel_positions,
        find_box_size(self, spatial_arrangement, None).size,
        RMinOver(Column(channel_positions, 1), DOMAIN channel_positions),
        RMaxOver(Column(channel_positions, 1), DOMAIN channel_positions),
        RMinOver(Column(channel_positions, 2), DOMAIN channel_positions),
        RMaxOver(Column(channel_positions, 2), DOMAIN channel_positions))

\* the arguments saved, with one box size for all the arrangements
SavedArgumentsOneBoxSize(self, spatial_arrangement, superposition, box_size, probe_scale) ==
    [self EXCEPT
        !.spatial_arrangement = ArgOr(spatial_arrangement, @),
        !.superposition = ArgOr(superposition, @),
        !.box_sizes = IF box_size = None THEN @
                      ELSE [a \in WaveformSpatialArrangement |-> box_size],
        !.probe_scale = IF probe_scale = None THEN @ ELSE probe_scale]

\* lines 279-291 of update_arrangement: the arguments given are saved
SavedArguments(self, spatial_arrangement, superposition, box_size, probe_scale) ==
    [self EXCEPT
        !.spatial_arrangement = ArgOr(spatial_arrangement, @),
        !.superposition = ArgOr(superposition, @),
        !.box_sizes[ArgOr(spatial_arrangement, self.spatial_arrangement)] =
            IF box_size = None THEN @ ELSE box_size,
        !.probe_scale = IF probe_scale = None THEN @ ELSE probe_scale]

\* np.repeat(a, n, axis=0): each row of a, n times in a row
RepeatRows(a, n) ==
    [r \in 0 .. Cardinality(DOMAIN a) * n - 1 |-> a[r \div n]]

\* a vector read into nrows rows column by column
ReshapeColumnMajor(v, nrows, ncols) ==
    [c \in 0 .. nrows - 1 |-> [k \in 0 .. ncols - 1 |-> v[k * nrows + c]]]

\* np.reshape(v, (nrows, ncols)): the vector read row by row
Reshape(v, nrows, ncols) ==
    [c \in 0 .. nrows - 1 |-> [k \in 0 .. ncols - 1 |-> v[c * ncols + k]]]

\* the separated clusters shifted by the box width without its margin
ScaledAndShiftedWithoutMargin(self, Tx, Ty, w) ==
    <<[c \in DOMAIN Tx |-> [k \in DOMAIN Tx[c] |->
        RAdd(RMul(Tx[c][k], self.probe_scale[1]),
             IF self.superposition = "Separated"
             THEN RMul(w, RSub(RAdd(Rat(1, 2), R(k)), Rat(self.nclusters, 2)))
             ELSE R(0))]],
      [c \in DOMAIN Ty |-> [k \in DOMAIN Ty[c] |->
        RMul(Ty[c][k], self.probe_scale[2])]]>>

\* lines 305-313: the probe scale, and the shift of the separated clusters
ScaledAndShifted(self, Tx, Ty, w) ==
    <<[c \in DOMAIN Tx |-> [k \in DOMAIN Tx[c] |->
        RAdd(RMul(Tx[c][k], self.probe_scale[1]),
             IF self.superposition = "Separated"
             THEN RMul(RMul(w, OnePlus2(alpha)),
                       RSub(RAdd(Rat(1, 2), R(k)), Rat(self.nclusters, 2)))
             ELSE R(0))]],
      [c \in DOMAIN Ty |-> [k \in DOMAIN Ty[c] |->
        RMul(Ty[c][k], self.probe_scale[2])]]>>

\* lines 300-302: T, Tx and Ty
Translations(self, T, w) ==
    ScaledAndShifted(self,
        Reshape(Column(T, 1), self.nchannels, self.nclusters),
        Reshape(Column(T, 2), self.nchannels, self.nclusters), w)

\* lines 298-313: the box centers (Tx, Ty) for the box width w
BoxPositions(self, channel_positions, w) ==
    Translations(self, RepeatRows(channel_positions, self.nclusters), w)

\* lines 293-317: the box size is loaded, the positions and size recorded
Arranged(loaded) ==
    [loaded.self EXCEPT
        !.box_positions =
            BoxPositions(loaded.self,
                         loaded.self.channel_positions[loaded.self.spatial_arrangement],
                         loaded.size[1]),
        !.box_size = loaded.size]

update_arrangement(self, spatial_arrangement, superposition, box_size, probe_scale) ==
    Arranged(load_box_size(
        SavedArguments(self, spatial_arrangement, superposition, box_size, probe_scale),
        None))

\* linear_positions of set_info: x = 0, y = linspace(1, -1, nchannels)
LinearPositions(nchannels) ==
    [c \in 0 .. nchannels - 1 |-> <<R(0), Linspace(R(1), R(-1), nchannels, c)>>]

\* lines 249-252 of set_info
WithInfo(self, nchannels, nclusters) ==
    [self EXCEPT !.nchannels = nchannels, !.nclusters = nclusters,
                 !.diffxc = Sqrt(nchannels), !.diffyc = Sqrt(nchannels)]

\* lines 254-265 of set_info
WithChannelPositions(self, geometrical_positions) ==
    [self EXCEPT !.channel_positions =
        [a \in WaveformSpatialArrangement |->
            IF a = "Linear"
            THEN normalize_channel_positions(self, Some("Linear"),
                                             LinearPositions(self.nchannels))
            ELSE normalize_channel_positions(self, Some("Geometrical"),
                    IF geometrical_positions = None
                    THEN LinearPositions(self.nchannels) ELSE geometrical_positions)]]

set_info(self, nchannels, nclusters, geometrical_positions) ==
    update_arrangement(
        WithChannelPositions(WithInfo(self, nchannels, nclusters), geometrical_positions),
        None, None, None, None)

\* the size loaded and moved, without the floor
ScaledBoxSizeUnfloored(size, dsx, dsy) == <<RAdd(size[1], dsx), RAdd(size[2], dsy)>>

\* lines 365-367 of change_box_scale: the size loaded, moved and floored
ScaledBoxSize(size, dsx, dsy) ==
    <<RMax(box_size_min, RAdd(size[1], dsx)), RMax(box_size_min, RAdd(size[2], dsy))>>

\* change_box_scale once the box size is loaded
BoxScaleChanged(loaded, dsx, dsy) ==
    update_arrangement(loaded.self, None, None, ScaledBoxSize(loaded.size, dsx, dsy), None)

change_box_scale(self, dsx, dsy) ==
    BoxScaleChanged(load_box_size(self, None), dsx, dsy)

ScaledProbe(probe_scale, dsx, dsy) ==
    <<RMax(probe_scale_min, RAdd(probe_scale[1], dsx)),
      RMax(probe_scale_min, RAdd(probe_scale[2], dsy))>>

change_probe_scale(self, dsx, dsy) ==
    update_arrangement(self, None, None, None, ScaledProbe(self.probe_scale, dsx, dsy))

\* update_arrangement with the manager's own arrangement and superposition
Rearranged(self) ==
    update_arrangement(self, Some(self.spatial_arrangement), Some(self.superposition),
                       None, None)

toggle_superposition(self) ==
    Rearranged([self EXCEPT !.superposition =
        IF @ = "Separated" THEN "Superimposed" ELSE "Separated"])

toggle_spatial_arrangement(self) ==
    Rearranged([self EXCEPT !.spatial_arrangement =
        IF @ = "Linear" THEN "Geometrical" ELSE "Linear"])

get_transformation(self) == <<self.box_positions, self.box_size>>

(***************************************************************************)
(* WaveformDataManager.                                                    *)
(***************************************************************************)
\* the channel, the (reordered) spike and the sample of buffer point i
ChannelOf(i, nspikes, nsamples) == i \div (nspikes * nsamples)

SpikeOf(i, nspikes, nsamples) == (i % (nspikes * nsamples)) \div nsamples

SampleOf(i, nsamples) == i % nsamples

\* an N x 2 array: X is linspace(-1, 1, nsamples) tiled, Y is the reordered
\* waveforms, channel-major, then spike, then sample
prepare_waveform_data(self) ==
    [i \in 0 .. self.npoints - 1 |->
        <<Linspace(R(-1), R(1), self.nsamples, SampleOf(i, self.nsamples)),
          self.waveforms_reordered[SpikeOf(i, self.nspikes, self.nsamples)]
                                  [SampleOf(i, self.nsamples)]
                                  [ChannelOf(i, self.nspikes, self.nsamples)]>>]

\* galry's DataNormalizer.normalize: each coordinate is mapped affinely from
\* its range [lo, hi] onto [-1, 1]; an empty range is widened by 1/2 each side
NormalizeOnto(x, lo, hi) ==
    RAdd(R(-1), RDiv(RMul(R(2), RSub(x, lo)), RSub(hi, lo)))

NormalizeIn(x, lo, hi) ==
    IF lo = hi THEN NormalizeOnto(x, RSub(lo, Rat(1, 2)), RAdd(hi, Rat(1, 2)))
    ELSE NormalizeOnto(x, lo, hi)

NormalizedWithinBounds(data, x0, x1, y0, y1) ==
    [i \in DOMAIN data |->
        <<NormalizeIn(data[i][1], x0, x1), NormalizeIn(data[i][2], y0, y1)>>]

Normalized(data) ==
    NormalizedWithinBounds(data,
        RMinOver(Column(data, 1), DOMAIN data), RMaxOver(Column(data, 1), DOMAIN data),
        RMinOver(Column(data, 2), DOMAIN data), RMaxOver(Column(data, 2), DOMAIN data))

\* lines 438-463 of set_data: the shape, and the organizer's reordered data
Organized(D, organizer) ==
    [nspikes |-> D.shape[1],
     nsamples |-> D.shape[2],
     nchannels |-> D.shape[3],
     npoints |-> D.shape[1] * D.shape[2] * D.shape[3],
     geometrical_positions |-> D.geometrical_positions,
     waveforms |-> D.waveforms,
     permutation |-> organizer.permutation,
     waveforms_reordered |-> organizer.data_reordered,
     nclusters |-> organizer.nclusters,
     clusters |-> organizer.clusters,
     masks |-> organizer.masks,
     clusters_unique |-> organizer.clusters_unique,
     clusters_rel |-> organizer.clusters_rel,
     cluster_sizes_cum |-> organizer.cluster_sizes_cum,
     cluster_sizes_dict |-> organizer.cluster_sizes_dict]

\* full_masks (line 469): the mask of the spike and channel of every point
FullMasks(self) ==
    [i \in 0 .. self.npoints - 1 |->
        self.masks[SpikeOf(i, self.nspikes, self.nsamples)]
                  [ChannelOf(i, self.nspikes, self.nsamples)]]

\* lines 465-475 of set_data: the buffers
WithBuffers(self) ==
    [nspikes |-> self.nspikes,
     nsamples |-> self.nsamples,
     nchannels |-> self.nchannels,
     npoints |-> self.npoints,
     geometrical_positions |-> self.geometrical_positions,
     waveforms |-> self.waveforms,
     permutation |-> self.permutation,
     waveforms_reordered |-> self.waveforms_reordered,
     nclusters |-> self.nclusters,
     clusters |-> self.clusters,
     masks |-> self.masks,
     clusters_unique |-> self.clusters_unique,
     clusters_rel |-> self.clusters_rel,
     cluster_sizes_cum |-> self.cluster_sizes_cum,
     cluster_sizes_dict |-> self.cluster_sizes_dict,
     full_masks |-> FullMasks(self),
     normalized_data |-> Normalized(prepare_waveform_data(self))]

\* the data manager after set_data's own assignments (lines 438-475)
DataManagerOf(D) ==
    WithBuffers(Organized(D, SpikeDataOrganizer(D.waveforms, D.clusters, D.masks)))

\* line 470: np.tile(np.repeat(clusters_rel, nsamples), nchannels)
full_clusters(self) ==
    [i \in 0 .. self.nspikes * self.nsamples * self.nchannels - 1 |->
        self.clusters_rel[(i % (self.nspikes * self.nsamples)) \div self.nsamples]]

\* line 471: np.repeat(np.arange(nchannels), nspikes * nsamples)
full_channels(self) ==
    [i \in 0 .. self.nchannels * (self.nspikes * self.nsamples) - 1 |->
        i \div (self.nspikes * self.nsamples)]

\* the range of a buffer laid out cluster by cluster, then channel by channel
get_data_position_cluster_major(self, channel, cluster_rel) ==
    LET cluster == self.clusters_unique[cluster_rel]
        i0 == self.nsamples * (self.nchannels * self.cluster_sizes_cum[cluster]
                               + channel * self.cluster_sizes_dict[cluster])
    IN  <<i0, i0 + self.nsamples * self.cluster_sizes_dict[cluster]>>

\* the half-open range [i0, i1) of the points of a channel and a cluster
get_data_position(self, channel, cluster_rel) ==
    LET cluster == self.clusters_unique[cluster_rel]
        i0 == self.nsamples * (channel * self.nspikes + self.cluster_sizes_cum[cluster])
        i1 == i0 + self.nsamples * self.cluster_sizes_dict[cluster]
    IN  <<i0, i1>>

(***************************************************************************)
(* WaveformHighlightManager.                                               *)
(***************************************************************************)
\* the ascending sequence of the elements of a finite set of integers
RECURSIVE SortedSeq(_)
SortedSeq(S) ==
    IF S = {} THEN <<>>
    ELSE LET m == CHOOSE x \in S : \A y \in S : y <= x
         IN  Append(SortedSeq(S \ {m}), m)

Range(q) == {q[j] : j \in DOMAIN q}

\* initialize with a mask of one channel's points
initialize_one_channel(data_manager) ==
    [full_masks |-> data_manager.full_masks,
     clusters_rel |-> data_manager.clusters_rel,
     nchannels |-> data_manager.nchannels,
     nclusters |-> data_manager.nclusters,
     nsamples |-> data_manager.nsamples,
     nspikes |-> data_manager.nspikes,
     npoints |-> data_manager.npoints,
     highlighted_spikes |-> <<>>,
     highlight_mask |->
        [i \in 0 .. data_manager.nspikes * data_manager.nsamples - 1 |-> 0]]

initialize(data_manager) ==
    [full_masks |-> data_manager.full_masks,
     clusters_rel |-> data_manager.clusters_rel,
     nchannels |-> data_manager.nchannels,
     nclusters |-> data_manager.nclusters,
     nsamples |-> data_manager.nsamples,
     nspikes |-> data_manager.nspikes,
     npoints |-> data_manager.npoints,
     highlighted_spikes |-> <<>>,
     highlight_mask |-> [i \in 0 .. data_manager.npoints - 1 |-> 0]]

\* |x|, rounded down to a multiple of 1 / DistResolution
Coarse(x) ==
    LET n == Abs(x[1])
    IN  R((n \div x[2]) * DistResolution + ((n % x[2]) * DistResolution) \div x[2])

\* dist.ravel(): the scaled squared distance of the press point to the
\* center of box index = channel * nclusters + cluster_rel.  The distances
\* are only compared with each other, and the model computes them from the
\* coordinate differences rounded to 1 / DistResolution.
BoxDistances(Tx, Ty, xp, yp, sx, sy) ==
    LET nch == Cardinality(DOMAIN Tx)
        ncl == Cardinality(DOMAIN Tx[0])
    IN  [index \in 0 .. nch * ncl - 1 |->
            LET c == index \div ncl
                k == index % ncl
            IN  RAdd(RSq(RMul(Coarse(RSub(Tx[c][k], xp)), sx)),
                     RSq(RMul(Coarse(RSub(Ty[c][k], yp)), sy)))]

\* np.argsort(dist)[:count]: the indices of the count smallest entries, in
\* ascending order of distance, equal distances in index order
RECURSIVE ArgsortFrom(_, _, _)
ArgsortFrom(dist, remaining, count) ==
    IF count = 0 \/ remaining = {} THEN <<>>
    ELSE LET m == CHOOSE i \in remaining : \A j \in remaining :
                    \/ RLt(dist[i], dist[j])
                    \/ dist[i] = dist[j] /\ i <= j
         IN  <<m>> \o ArgsortFrom(dist, remaining \ {m}, count - 1)

ArgsortFirst(dist, count) == ArgsortFrom(dist, DOMAIN dist, count)

ClosestBoxes(dist) == ArgsortFirst(dist, HIGHLIGHT_CLOSE_BOXES_COUNT)

\* the test without the mask
PointEnclosedUnmasked(mask, pt, x_lo, x_hi, y_lo, y_hi) ==
    /\ RLe(x_lo, pt[1])
    /\ RLe(pt[1], x_hi)
    /\ RLe(y_lo, pt[2])
    /\ RLe(pt[2], y_hi)

\* the test with the upper bounds compared the wrong way round
PointEnclosedAbove(mask, pt, x_lo, x_hi, y_lo, y_hi) ==
    /\ RLt(R(0), mask)
    /\ RLe(x_lo, pt[1])
    /\ RLe(x_hi, pt[1])
    /\ RLe(y_lo, pt[2])
    /\ RLe(y_hi, pt[2])

\* the test of one point against the rectangle in the coordinates of its box
PointEnclosed(mask, pt, x_lo, x_hi, y_lo, y_hi) ==
    /\ RLt(R(0), mask)
    /\ RLe(x_lo, pt[1])
    /\ RLe(pt[1], x_hi)
    /\ RLe(y_lo, pt[2])
    /\ RLe(pt[2], y_hi)

\* the spike index without the reduction modulo a channel's points
SpikeIndexUnreduced(self, i) == i \div self.nsamples

\* the spike index computed from a point index (line 129)
SpikeIndex(self, i) == (i % (self.nspikes * self.nsamples)) \div self.nsamples

\* the bounds (lo - center) / half and (hi - center) / half of lines 124-125
LocalBounds(lo, hi, center, half) ==
    <<RDiv(RSub(lo, center), half), RDiv(RSub(hi, center), half)>>

\* lines 116-129: the spikes of the points start .. end - 1 that pass the test
SpikesEnclosed(self, data_manager, pos, xb, yb) ==
    {SpikeIndex(self, i) : i \in {j \in pos[1] .. pos[2] - 1 :
        PointEnclosed(self.full_masks[j], data_manager.normalized_data[j],
                      xb[1], xb[2], yb[1], yb[2])}}

\* lines 105-129 for the box of a channel and a relative cluster
EnclosedAt(self, data_manager, tr, enclosing_box, channel, cluster_rel) ==
    SpikesEnclosed(self, data_manager,
        get_data_position(data_manager, channel, cluster_rel),
        LocalBounds(RMin(enclosing_box[1], enclosing_box[3]),
                    RMax(enclosing_box[1], enclosing_box[3]),
                    tr[1][1][channel][cluster_rel], RDiv(tr[2][1], R(2))),
        LocalBounds(RMin(enclosing_box[2], enclosing_box[4]),
                    RMax(enclosing_box[2], enclosing_box[4]),
                    tr[1][2][channel][cluster_rel], RDiv(tr[2][2], R(2))))

\* the spikes found in the box of ravel index `index`
EnclosedInBox(self, data_manager, position_manager, enclosing_box, index) ==
    EnclosedAt(self, data_manager, get_transformation(position_manager), enclosing_box,
               index \div self.nclusters, index % self.nclusters)

\* dist.ravel() for the transformation tr
DistancesTo(tr, enclosing_box, sx, sy) ==
    BoxDistances(tr[1][1], tr[1][2], enclosing_box[1], enclosing_box[2], sx, sy)

\* the boxes find_enclosed_spikes examines
CandidateBoxes(position_manager, enclosing_box, sx, sy) ==
    ClosestBoxes(DistancesTo(get_transformation(position_manager), enclosing_box, sx, sy))

\* lines 104-133: the loop over the closest boxes, np.unique and sort
EnclosedInBoxes(self, data_manager, position_manager, enclosing_box, closest) ==
    SortedSeq(UNION {EnclosedInBox(self, data_manager, position_manager,
                                   enclosing_box, closest[r]) : r \in DOMAIN closest})

find_enclosed_spikes(self, data_manager, position_manager, sx, sy, enclosing_box) ==
    EnclosedInBoxes(self, data_manager, position_manager, enclosing_box,
                    CandidateBoxes(position_manager, enclosing_box, sx, sy))

\* the point indices of the spikes on the first channel only
find_indices_on_first_channel(self, spikes) ==
    IF Len(spikes) = 0 THEN None
    ELSE [j \in 0 .. Len(spikes) * self.nsamples - 1 |->
            spikes[(j \div self.nsamples) + 1] * self.nsamples + (j % self.nsamples)]

\* None, or the array of the point indices of the spikes, on every channel
find_indices_from_spikes(self, spikes) ==
    IF Len(spikes) = 0 THEN None
    ELSE [j \in 0 .. self.nchannels * Len(spikes) * self.nsamples - 1 |->
            spikes[((j % (Len(spikes) * self.nsamples)) \div self.nsamples) + 1]
                * self.nsamples
            + ((j % (Len(spikes) * self.nsamples)) % self.nsamples)
            + (j \div (self.nsamples * Len(spikes))) * self.nsamples * self.nspikes]

\* highlight_mask[ind] = 1 on the mask as it was
MaskAdded(highlight_mask, ind) ==
    [i \in DOMAIN highlight_mask |->
        IF ind # None /\ \E j \in DOMAIN ind : ind[j] = i THEN 1 ELSE highlight_mask[i]]

\* highlight_mask[:] = 0, then highlight_mask[ind] = 1
MaskOf(highlight_mask, ind) ==
    [i \in DOMAIN highlight_mask |->
        IF ind # None /\ \E j \in DOMAIN ind : ind[j] = i THEN 1 ELSE 0]

\* lines 164-169: the update sent, the highlighted spikes recorded
WithHighlight(self, spikes, mask, do_update) ==
    [self |-> [self EXCEPT !.highlight_mask = mask, !.highlighted_spikes = spikes],
     sent |-> IF do_update THEN <<[highlight |-> mask]>> ELSE <<>>]

\* set_highlighted_spikes sending an update at every call
set_highlighted_spikes_always_updating(self, spikes) ==
    WithHighlight(self, spikes,
        MaskOf(self.highlight_mask, find_indices_from_spikes(self, spikes)), TRUE)

\* the manager after the call and the calls made to paint_manager.set_data
set_highlighted_spikes(self, spikes) ==
    WithHighlight(self, spikes,
        MaskOf(self.highlight_mask, find_indices_from_spikes(self, spikes)),
        IF Len(spikes) = 0 THEN Len(self.highlighted_spikes) > 0 ELSE TRUE)

\* highlighted keeping the first of the enclosed spikes only
highlighted_first_spike(self, data_manager, position_manager, sx, sy, box) ==
    set_highlighted_spikes(self,
        SubSeq(find_enclosed_spikes(self, data_manager, position_manager, sx, sy, box),
               1, 1))

highlighted(self, data_manager, position_manager, sx, sy, box) ==
    set_highlighted_spikes(self,
        find_enclosed_spikes(self, data_manager, position_manager, sx, sy, box))

\* cancel_highlight leaving the highlighted spikes as they are
cancel_highlight_keeping_spikes(self) ==
    [self |-> [self EXCEPT !.highlight_mask = [i \in DOMAIN @ |-> 0]],
     sent |-> IF Len(self.highlighted_spikes) > 0
              THEN <<[highlight |-> [i \in DOMAIN self.highlight_mask |-> 0]]>>
              ELSE <<>>]

cancel_highlight(self) == set_highlighted_spikes(self, <<>>)

(***************************************************************************)
(* WaveformPaintManager: the uniforms sent after a layout operation.       *)
(***************************************************************************)
get_uniform_value(position_manager, name) ==
    CASE name = "box_size" -> load_box_size(position_manager, None).size
      [] name = "box_size_margin" ->
            LET wh == load_box_size(position_manager, None).size
            IN  <<RMul(wh[1], OnePlus2(alpha)), RMul(wh[2], OnePlus2(beta))>>
      [] name = "probe_scale" -> position_manager.probe_scale
      [] name = "superimposed" -> position_manager.superposition = "Superimposed"
      [] name = "channel_positions" ->
            position_manager.channel_positions[position_manager.spatial_arrangement]

\* the one set_data call auto_update_uniforms makes
auto_update_uniforms(position_manager, names) ==
    <<[name \in names |-> get_uniform_value(position_manager, name)]>>

(***************************************************************************)
(* The view: its managers, the calls the last operation made to            *)
(* paint_manager.set_data, and the last operation with its arguments.      *)
(***************************************************************************)
VARIABLES data_manager, position_manager, highlight_manager, sent, last

vars == <<data_manager, position_manager, highlight_manager, sent, last>>

Op(name, args) == [op |-> name, args |-> args]

\* a data manager none of whose attributes is assigned yet
Unassigned ==
    [nspikes |-> None, nsamples |-> None, nchannels |-> None, npoints |-> None,
     geometrical_positions |-> None, waveforms |-> None, permutation |-> None,
     waveforms_reordered |-> None, nclusters |-> None, clusters |-> None,
     masks |-> None, clusters_unique |-> None, clusters_rel |-> None,
     cluster_sizes_cum |-> None, cluster_sizes_dict |-> None,
     full_masks |-> None, normalized_data |-> None]

\* set_data has run to its end once
Loaded == data_manager # None /\ data_manager.normalized_data # None

\* the view after construction
Init ==
    /\ data_manager = None
    /\ position_manager = PositionManagerInit
    /\ highlight_manager = None
    /\ sent = <<>>
    /\ last = Op("__init__", <<>>)

\* WaveformView.set_data(waveforms, clusters, masks, geometrical_positions)
set_data(D) ==
    /\ data_manager' = DataManagerOf(D)
    /\ position_manager' = set_info(position_manager, data_manager'.nchannels,
                                    data_manager'.nclusters,
                                    data_manager'.geometrical_positions)
    /\ highlight_manager' = initialize(data_manager')
    /\ sent' = <<>>
    /\ last' = Op("set_data", <<>>)

\* clusters or masks do not have one row per spike of waveforms
Inconsistent(D) ==
    \/ DOMAIN D.clusters # 0 .. D.shape[1] - 1
    \/ DOMAIN D.masks # 0 .. D.shape[1] - 1

\* lines 438-442 of set_data: the attributes assigned before the organizer
\* is constructed
ShapeAssigned(self, D) ==
    [self EXCEPT !.nspikes = D.shape[1],
                 !.nsamples = D.shape[2],
                 !.nchannels = D.shape[3],
                 !.npoints = D.shape[1] * D.shape[2] * D.shape[3],
                 !.geometrical_positions = D.geometrical_positions,
                 !.waveforms = D.waveforms]

\* WaveformView.set_data with clusters or masks of another length than
\* waveforms: SpikeDataOrganizer raises, and set_data ends at line 445
set_data_inconsistent(D) ==
    /\ Inconsistent(D)
    /\ data_manager' = ShapeAssigned(IF data_manager = None THEN Unassigned
                                     ELSE data_manager, D)
    /\ sent' = <<>>
    /\ last' = Op("set_data_failed", <<>>)
    /\ UNCHANGED <<position_manager, highlight_manager>>

\* the box sizes and the probe scales the model lets the user grow to
BoxWithinBounds(size) == RLe(size[1], R(MaxBoxSize)) /\ RLe(size[2], R(MaxBoxSize))

ProbeWithinBounds(probe_scale) ==
    RLe(probe_scale[1], R(MaxProbeScale)) /\ RLe(probe_scale[2], R(MaxProbeScale))

ChangeBoxScaleEvent(dsx, dsy) ==
    /\ Loaded
    /\ position_manager' = change_box_scale(position_manager, dsx, dsy)
    /\ RLe(dsx, R(0)) \/ BoxWithinBounds(position_manager'.box_size)
    /\ sent' = auto_update_uniforms(position_manager', {"box_size", "box_size_margin"})
    /\ last' = Op("change_box_scale", <<dsx, dsy>>)
    /\ UNCHANGED <<data_manager, highlight_manager>>

ChangeProbeScaleEvent(dsx, dsy) ==
    /\ Loaded
    /\ position_manager' = change_probe_scale(position_manager, dsx, dsy)
    /\ ProbeWithinBounds(position_manager'.probe_scale)
    /\ sent' = auto_update_uniforms(position_manager', {"probe_scale"})
    /\ last' = Op("change_probe_scale", <<dsx, dsy>>)
    /\ UNCHANGED <<data_manager, highlight_manager>>

ToggleSuperpositionEvent ==
    /\ Loaded
    /\ position_manager' = toggle_superposition(position_manager)
    /\ sent' = auto_update_uniforms(position_manager',
                    {"superimposed", "box_size", "box_size_margin"})
    /\ last' = Op("toggle_superposition", <<>>)
    /\ UNCHANGED <<data_manager, highlight_manager>>

ToggleSpatialArrangementEvent ==
    /\ Loaded
    /\ position_manager' = toggle_spatial_arrangement(position_manager)
    /\ sent' = auto_update_uniforms(position_manager',
                    {"channel_positions", "box_size", "box_size_margin"})
    /\ last' = Op("toggle_spatial_arrangement", <<>>)
    /\ UNCHANGED <<data_manager, highlight_manager>>

\* the highlight manager and the updates sent, from the pair a method returns
Highlight(r, op) ==
    /\ highlight_manager' = r.self
    /\ sent' = r.sent
    /\ last' = op
    /\ UNCHANGED <<data_manager, position_manager>>

\* HighlightSpikeEvent: highlight_manager.highlight(box), which ends in
\* WaveformHighlightManager.highlighted(box), with the interaction manager's
\* scale sxy
HighlightSpikeEvent(box, sxy) ==
    /\ Loaded
    /\ Highlight(highlighted(highlight_manager, data_manager, position_manager,
                             sxy[1], sxy[2], box),
                 Op("highlighted", <<box, sxy>>))

\* WaveformHighlightManager.set_highlighted_spikes(spikes)
SetHighlightedSpikes(spikes) ==
    /\ Loaded
    /\ Highlight(set_highlighted_spikes(highlight_manager, spikes),
                 Op("set_highlighted_spikes", <<spikes>>))

\* process_none_event: WaveformHighlightManager.cancel_highlight()
NoneEvent ==
    /\ Loaded
    /\ Highlight(cancel_highlight(highlight_manager), Op("cancel_highlight", <<>>))

(***************************************************************************)
(* The inputs of the operations.                                           *)
(***************************************************************************)
BoxScaleSteps == {<<R(-10), R(-10)>>, <<Rat(1, 2), Rat(1, 2)>>}

ProbeScaleSteps == {<<R(1), R(1)>>}

\* the whole viewport, dragged from its lower left corner
FullRect == <<R(-1), R(-1), R(1), R(1)>>

\* the rectangles dragged: from the center to each of nine corners, and from
\* the lower left corner to the center or to the upper right corner
Corners == {R(-1), R(0), R(1)}

Rects ==
    {<<R(0), R(0), x1, y1>> : x1 \in Corners, y1 \in Corners}
        \cup {<<R(-1), R(-1), R(0), R(0)>>, FullRect}

\* (sx, sy) of the interaction manager
Unscaled == <<R(1), R(1)>>

Scales == {Unscaled, <<R(1), R(3)>>}

\* the spike lists handed to set_highlighted_spikes: ascending, of at most
\* two spikes
SpikeLists(nspikes) ==
    {SortedSeq(S) : S \in {T \in SUBSET (0 .. nspikes - 1) : Cardinality(T) <= 2}}

(***************************************************************************)
(* The view: constructed, then loaded and reloaded, and interacted with.   *)
(***************************************************************************)
Next ==
    \/ \E D \in Datasets : set_data(D)
    \/ ChangeBoxScaleEvent(R(-10), R(-10))
    \/ \E d \in ProbeScaleSteps : ChangeProbeScaleEvent(d[1], d[2])
    \/ ToggleSuperpositionEvent
    \/ ToggleSpatialArrangementEvent
    \/ HighlightSpikeEvent(FullRect, Unscaled)
    \/ SetHighlightedSpikes(<<0>>)
    \/ NoneEvent

Spec == Init /\ [][Next]_vars

\* the view WaveformWidget.create_view makes: constructed and loaded with D
Created(D) ==
    /\ data_manager = DataManagerOf(D)
    /\ position_manager = set_info(PositionManagerInit, data_manager.nchannels,
                                   data_manager.nclusters,
                                   data_manager.geometrical_positions)
    /\ highlight_manager = initialize(data_manager)
    /\ sent = <<>>
    /\ last = Op("set_data", <<>>)

(***************************************************************************)
(* One dataset, rearranged with the box sizes left alone, and selected     *)
(* from.                                                                   *)
(***************************************************************************)
InitSelection == \E D \in SelectionDatasets : Created(D)

NextSelection ==
    \/ ToggleSuperpositionEvent
    \/ ToggleSpatialArrangementEvent
    \/ \E box \in Rects, sxy \in Scales : HighlightSpikeEvent(box, sxy)

SpecSelection == InitSelection /\ [][NextSelection]_vars

(***************************************************************************)
(* One dataset in its first layout, its spikes highlighted.                *)
(***************************************************************************)
InitHighlight == \E D \in HighlightDatasets : Created(D)

NextHighlight ==
    \/ \E spikes \in SpikeLists(highlight_manager.nspikes) : SetHighlightedSpikes(spikes)
    \/ HighlightSpikeEvent(FullRect, Unscaled)
    \/ NoneEvent

SpecHighlight == InitHighlight /\ [][NextHighlight]_vars

(***************************************************************************)
(* One dataset, rearranged and its boxes scaled.                           *)
(***************************************************************************)
InitBoxScale == \E D \in BoxScaleDatasets : Created(D)

NextBoxScale ==
    \/ \E d \in BoxScaleSteps : ChangeBoxScaleEvent(d[1], d[2])
    \/ ToggleSuperpositionEvent
    \/ ToggleSpatialArrangementEvent

SpecBoxScale == InitBoxScale /\ [][NextBoxScale]_vars

(***************************************************************************)
(* One dataset, laid out in every way the four layout operations reach.    *)
(***************************************************************************)
InitLayout == \E D \in LayoutDatasets : Created(D)

NextLayout ==
    \/ \E d \in BoxScaleSteps : ChangeBoxScaleEvent(d[1], d[2])
    \/ \E d \in ProbeScaleSteps : ChangeProbeScaleEvent(d[1], d[2])
    \/ ToggleSuperpositionEvent
    \/ ToggleSpatialArrangementEvent

SpecLayout == InitLayout /\ [][NextLayout]_vars

(***************************************************************************)
(* The view loaded, with loads that fail, rearranged and highlighted.      *)
(***************************************************************************)
NextLoad ==
    \/ \E D \in Datasets : set_data(D)
    \/ \E D \in InconsistentDatasets : set_data_inconsistent(D)
    \/ ChangeBoxScaleEvent(R(-10), R(-10))
    \/ ToggleSuperpositionEvent
    \/ ToggleSpatialArrangementEvent
    \/ SetHighlightedSpikes(<<0>>)
    \/ NoneEvent

SpecLoad == Init /\ [][NextLoad]_vars

(***************************************************************************)
(* Properties of find_enclosed_spikes, at the states a HighlightSpikeEvent *)
(* leaves.                                                                 *)
(***************************************************************************)
JustHighlighted == last.op = "highlighted"

\* the rectangle and the scale of the last HighlightSpikeEvent
LastBox == last.args[1]

LastScale == last.args[2]

\* the spikes the last operation left highlighted
Result == Range(highlight_manager.highlighted_spikes)

IsAscending(q) == \A i \in 1 .. Len(q) - 1 : q[i] < q[i + 1]

\* the boxes examined by the last HighlightSpikeEvent
LastCandidates ==
    Range(CandidateBoxes(position_manager, LastBox, LastScale[1], LastScale[2]))

\* point j of the buffer belongs to the box of ravel index `index`
PointOfBox(j, index) ==
    /\ ChannelOf(j, data_manager.nspikes, data_manager.nsamples)
        = index \div data_manager.nclusters
    /\ data_manager.clusters_rel[SpikeOf(j, data_manager.nspikes, data_manager.nsamples)]
        = index % data_manager.nclusters

\* the mask value of point j: that of its spike on its channel
MaskAt(j) ==
    data_manager.masks[SpikeOf(j, data_manager.nspikes, data_manager.nsamples)]
                      [ChannelOf(j, data_manager.nspikes, data_manager.nsamples)]

\* (lo - center) / half <= x <= (hi - center) / half, for half > 0
Between(x, lo, hi, center, half) ==
    /\ RLe(RSub(lo, center), RMul(x, half))
    /\ RLe(RMul(x, half), RSub(hi, center))

\* the normalized coordinates of point j satisfy the bounds of the rectangle
\* box in the box of ravel index `index`
InsideBox(j, index, box) ==
    LET c == index \div data_manager.nclusters
        k == index % data_manager.nclusters
    IN  /\ Between(data_manager.normalized_data[j][1],
                   RMin(box[1], box[3]), RMax(box[1], box[3]),
                   position_manager.box_positions[1][c][k],
                   RMul(position_manager.box_size[1], Rat(1, 2)))
        /\ Between(data_manager.normalized_data[j][2],
                   RMin(box[2], box[4]), RMax(box[2], box[4]),
                   position_manager.box_positions[2][c][k],
                   RMul(position_manager.box_size[2], Rat(1, 2)))

\* point j of a box in `boxes` passes the test of the rectangle box
Contributes(j, boxes, box) ==
    \E index \in boxes :
        PointOfBox(j, index) /\ RLt(R(0), MaskAt(j)) /\ InsideBox(j, index, box)

\* the spikes (positions in the reordered arrays) with a contributing point
Contributed(boxes, box) ==
    {SpikeOf(j, data_manager.nspikes, data_manager.nsamples) :
        j \in {i \in 0 .. data_manager.npoints - 1 : Contributes(i, boxes, box)}}

MaskedOut(s) == \A c \in 0 .. data_manager.nchannels - 1 : data_manager.masks[s][c] = R(0)

\* C1: after a HighlightSpikeEvent, a spike is in the result if and only if
\* one of its sample points, in a box examined, has a mask value > 0 and
\* normalized coordinates within the inclusive bounds of the rectangle in
\* that box; a spike masked out on every channel is never in the result.
C1_InclusionTest ==
    JustHighlighted =>
        /\ Result = Contributed(LastCandidates, LastBox)
        /\ \A s \in 0 .. data_manager.nspikes - 1 : MaskedOut(s) => s \notin Result

\* a selection that keeps some spikes, leaves out an unmasked spike whose
\* points are outside the rectangle, and leaves out a masked spike that has a
\* point inside it
C1_Witness ==
    /\ JustHighlighted
    /\ Result # {}
    /\ \E s \in 0 .. data_manager.nspikes - 1 : ~MaskedOut(s) /\ s \notin Result
    /\ \E j \in 0 .. data_manager.npoints - 1 :
        /\ MaskedOut(SpikeOf(j, data_manager.nspikes, data_manager.nsamples))
        /\ \E index \in LastCandidates : PointOfBox(j, index) /\ InsideBox(j, index, LastBox)

Max(a, b) == IF a >= b THEN a ELSE b

\* the K closest boxes, K the larger of HIGHLIGHT_CLOSE_BOXES_COUNT and nclusters
ClosestAtLeastClusters ==
    Range(ArgsortFirst(DistancesTo(get_transformation(position_manager),
                                   LastBox, LastScale[1], LastScale[2]),
                       Max(HIGHLIGHT_CLOSE_BOXES_COUNT, data_manager.nclusters)))

\* C2: after a HighlightSpikeEvent the result holds the spikes found in the
\* K = max(4, nclusters) boxes closest to the press point.
C2_CandidateCount ==
    JustHighlighted => Result = Contributed(ClosestAtLeastClusters, LastBox)

\* the original index of the spike stored at position s
Original(s) == data_manager.permutation[s]

\* C3 as stated: the result is strictly ascending and holds the indices, in
\* the order of set_data's input, of the spikes with a contributing point.
C3_AbsoluteIndices ==
    JustHighlighted =>
        /\ IsAscending(highlight_manager.highlighted_spikes)
        /\ Result = {Original(s) : s \in Contributed(LastCandidates, LastBox)}

\* C3: the result is strictly ascending, without duplicates, and holds the
\* positions in the cluster-sorted arrays of the spikes with a contributing
\* point: entry s is the spike of original index permutation[s].
C3_ReorderedIndices ==
    JustHighlighted =>
        /\ IsAscending(highlight_manager.highlighted_spikes)
        /\ Result \subseteq 0 .. data_manager.nspikes - 1
        /\ Cardinality(Result) = Len(highlight_manager.highlighted_spikes)
        /\ Result = Contributed(LastCandidates, LastBox)
        /\ \A s \in Result :
            data_manager.waveforms_reordered[s] = data_manager.waveforms[Original(s)]

\* a selection of two spikes or more on a dataset the sort permutes, one of
\* them stored at a position that is the original index of no selected spike
C3_Witness ==
    /\ JustHighlighted
    /\ Cardinality(Result) >= 2
    /\ \E s \in Result : Original(s) # s
    /\ {Original(s) : s \in Result} # Result

SamePress(r1, r2) == r1[1] = r2[1] /\ r1[2] = r2[2]

\* rectangle r2 contains rectangle r1
Contains(r2, r1) ==
    /\ RLe(RMin(r2[1], r2[3]), RMin(r1[1], r1[3]))
    /\ RLe(RMax(r1[1], r1[3]), RMax(r2[1], r2[3]))
    /\ RLe(RMin(r2[2], r2[4]), RMin(r1[2], r1[4]))
    /\ RLe(RMax(r1[2], r1[4]), RMax(r2[2], r2[4]))

FewBoxes == data_manager.nchannels * data_manager.nclusters <= HIGHLIGHT_CLOSE_BOXES_COUNT

\* the spikes find_enclosed_spikes returns for rectangle r in this layout
EnclosedBy(r) ==
    Range(find_enclosed_spikes(highlight_manager, data_manager, position_manager,
                               LastScale[1], LastScale[2], r))

\* C4: in a layout of at most HIGHLIGHT_CLOSE_BOXES_COUNT boxes, every
\* rectangle with the same press point that the rectangle just dragged
\* contains selects a subset of the spikes just selected.
C4_Monotone ==
    (JustHighlighted /\ FewBoxes) =>
        \A r1 \in Rects :
            (SamePress(r1, LastBox) /\ Contains(LastBox, r1)) => EnclosedBy(r1) \subseteq Result

\* a rectangle dragged that contains a smaller one selecting some of its
\* spikes, not all
C4_Witness ==
    /\ JustHighlighted
    /\ FewBoxes
    /\ \E r1 \in Rects :
        /\ SamePress(r1, LastBox)
        /\ Contains(LastBox, r1)
        /\ EnclosedBy(r1) # {}
        /\ EnclosedBy(r1) # Result

(***************************************************************************)
(* Properties of set_highlighted_spikes.                                   *)
(***************************************************************************)
JustSetHighlighted == last.op = "set_highlighted_spikes"

\* the spikes handed to the last set_highlighted_spikes
LastSpikes == last.args[1]

\* the positions of the points of the spikes of S, on every channel
PointsOfSpikes(S) ==
    {c * highlight_manager.nspikes * highlight_manager.nsamples
        + s * highlight_manager.nsamples + t :
        c \in 0 .. highlight_manager.nchannels - 1,
        s \in S,
        t \in 0 .. highlight_manager.nsamples - 1}

\* C5: after set_highlighted_spikes(S), S not empty, the highlight mask is 1
\* exactly at the positions c*nspikes*nsamples + s*nsamples + t, s in S, and
\* 0 elsewhere, whatever it held before.
C5_MaskOfSpikes ==
    (JustSetHighlighted /\ Len(LastSpikes) > 0) =>
        \A i \in 0 .. highlight_manager.npoints - 1 :
            highlight_manager.highlight_mask[i]
                = IF i \in PointsOfSpikes(Range(LastSpikes)) THEN 1 ELSE 0

\* two spikes highlighted, of several samples on several channels
C5_Witness ==
    /\ JustSetHighlighted
    /\ Len(LastSpikes) = 2
    /\ highlight_manager.nchannels > 1
    /\ highlight_manager.nsamples > 1
    /\ highlight_manager.nspikes > 2
    /\ \E i \in 0 .. highlight_manager.npoints - 1 :
        i >= highlight_manager.nspikes * highlight_manager.nsamples
            /\ highlight_manager.highlight_mask[i] = 1

\* the highlight manager and the updates after one more call with the spikes
\* of the last call
Repeated == set_highlighted_spikes(highlight_manager, LastSpikes)

\* C6: after set_highlighted_spikes(S), a second call with S leaves the same
\* highlight buffer; an empty call sends an update only if the highlighted
\* set was not empty, so the second of two empty calls sends none.
C6_Idempotent ==
    /\ JustSetHighlighted =>
        /\ Repeated.self.highlight_mask = highlight_manager.highlight_mask
        /\ Len(LastSpikes) = 0 => Repeated.sent = <<>>
    /\ Loaded =>
        (set_highlighted_spikes(highlight_manager, <<>>).sent # <<>>
            => Len(highlight_manager.highlighted_spikes) > 0)

\* an empty call that followed a highlight, and sent the update
C6_Witness ==
    /\ JustSetHighlighted
    /\ Len(LastSpikes) = 0
    /\ sent # <<>>

\* the updates of the last operation that carry a highlight array
HighlightUpdates == {i \in DOMAIN sent : "highlight" \in DOMAIN sent[i]}

\* C7: once loaded, the highlight mask has nspikes*nsamples*nchannels entries,
\* each 0 or 1, and every highlight update sent carries an array of that
\* length.
C7_MaskShape ==
    Loaded =>
        /\ data_manager.npoints
            = data_manager.nspikes * data_manager.nsamples * data_manager.nchannels
        /\ DOMAIN highlight_manager.highlight_mask = 0 .. data_manager.npoints - 1
        /\ \A i \in DOMAIN highlight_manager.highlight_mask :
            highlight_manager.highlight_mask[i] \in {0, 1}
        /\ \A u \in HighlightUpdates :
            DOMAIN sent[u].highlight = 0 .. data_manager.npoints - 1

\* a highlight update sent, of ones and zeros, in a view toggled and scaled
C7_Witness ==
    /\ Loaded
    /\ HighlightUpdates # {}
    /\ \E i, j \in DOMAIN highlight_manager.highlight_mask :
        highlight_manager.highlight_mask[i] = 1 /\ highlight_manager.highlight_mask[j] = 0
    /\ position_manager.superposition = "Superimposed"
    /\ position_manager.box_size = <<box_size_min, box_size_min>>

(***************************************************************************)
(* Properties of the layout.                                               *)
(***************************************************************************)
JustScaled == last.op = "change_box_scale"

\* C8: after every change_box_scale both sides of the box are at least
\* box_size_min, in the size in effect, in the size cached and in the size
\* sent; and after change_box_scale(-10, -10), the sides of the model being
\* below 10, the size is exactly (box_size_min, box_size_min), where one
\* more change_box_scale(-10, -10) leaves it.
C8_BoxScaleFloor ==
    JustScaled =>
        /\ RLe(box_size_min, position_manager.box_size[1])
        /\ RLe(box_size_min, position_manager.box_size[2])
        /\ position_manager.box_sizes[position_manager.spatial_arrangement]
            = position_manager.box_size
        /\ sent[1]["box_size"] = position_manager.box_size
        /\ last.args = <<R(-10), R(-10)>> =>
            /\ position_manager.box_size = <<box_size_min, box_size_min>>
            /\ change_box_scale(position_manager, R(-10), R(-10)).box_size
                = <<box_size_min, box_size_min>>

\* the box scaled down in a dataset of so many channels that the height
\* computed for its arrangement is below box_size_min
C8_Witness ==
    /\ JustScaled
    /\ last.args = <<R(-10), R(-10)>>
    /\ RLt(BoxSizeFormula(position_manager, position_manager.spatial_arrangement,
                          position_manager.superposition)[2], box_size_min)
    /\ position_manager.box_size = <<box_size_min, box_size_min>>

\* C9: with the box sizes left alone, the box size in effect is the one
\* the table of find_box_size gives for the arrangement and superposition.
C9_TableSize ==
    Loaded =>
        position_manager.box_size
            = BoxSizeFormula(position_manager, position_manager.spatial_arrangement,
                             position_manager.superposition)

\* the position manager of a view constructed in the arrangement and
\* superposition of this one, and loaded with this one's data
Fresh ==
    set_info([PositionManagerInit EXCEPT
                !.spatial_arrangement = position_manager.spatial_arrangement,
                !.superposition = position_manager.superposition],
             data_manager.nchannels, data_manager.nclusters,
             data_manager.geometrical_positions)

\* C10: after set_data the box sizes, the box centers, the channel positions
\* and the highlight state are those of a view in the same arrangement and
\* superposition, loaded with the same data, that never saw other data nor
\* a scale change.
C10_FullReset ==
    last.op = "set_data" =>
        /\ position_manager.box_sizes = Fresh.box_sizes
        /\ position_manager.box_size = Fresh.box_size
        /\ position_manager.box_positions = Fresh.box_positions
        /\ position_manager.channel_positions = Fresh.channel_positions
        /\ highlight_manager = initialize(data_manager)

(***************************************************************************)
(* Properties of loading.                                                  *)
(***************************************************************************)
\* C11: a set_data that fails leaves every field of the data manager, the
\* position manager and the highlight manager as it was before the call.
C11_NoPartialCommit ==
    [][last'.op = "set_data_failed"
        => UNCHANGED <<data_manager, position_manager, highlight_manager>>]_vars

(***************************************************************************)
(* Properties of the uniforms sent after a layout operation.               *)
(***************************************************************************)
LayoutOps ==
    {"change_box_scale", "change_probe_scale", "toggle_superposition",
     "toggle_spatial_arrangement"}

\* the uniforms that depend on the position manager (cluster_colors, the
\* sixth uniform, is read from the data manager, which no layout operation
\* touches, and no layout operation names it)
LayoutUniforms ==
    {"box_size", "box_size_margin", "probe_scale", "superimposed",
     "channel_positions"}

C12_Changed ==
    {name \in LayoutUniforms :
        get_uniform_value(position_manager', name)
            # get_uniform_value(position_manager, name)}

\* C12: a layout operation sends one update, and the names in it are exactly
\* the uniforms whose value the operation changed.
C12_ExactNames ==
    [][last'.op \in LayoutOps
        => Len(sent') = 1 /\ DOMAIN sent'[1] = C12_Changed]_vars

(***************************************************************************)
(* Properties of the box centers (Tx, Ty).                                 *)
(***************************************************************************)
Tx == position_manager.box_positions[1]

Ty == position_manager.box_positions[2]

Channels == 0 .. data_manager.nchannels - 1

Clusters == 0 .. data_manager.nclusters - 1

\* the position of channel c in the current arrangement, probe-scaled
ProbeX(c) ==
    RMul(position_manager.channel_positions[position_manager.spatial_arrangement][c][1],
         position_manager.probe_scale[1])

ProbeY(c) ==
    RMul(position_manager.channel_positions[position_manager.spatial_arrangement][c][2],
         position_manager.probe_scale[2])

\* the distance between the centers of two consecutive clusters
Pitch == RMul(position_manager.box_size[1], OnePlus2(alpha))

IsMatrix(T) ==
    /\ DOMAIN T = Channels
    /\ \A c \in Channels : DOMAIN T[c] = Clusters

\* C13: Tx and Ty have shape [nchannels, nclusters], and (Tx[c,k], Ty[c,k])
\* is the center of the box of channel c and cluster k: at the height of the
\* channel, and on the channel (superimposed) or in the k-th place of the row
\* of boxes centered on the channel (separated).
C13_BoxCenters ==
    Loaded =>
        /\ IsMatrix(Tx) /\ IsMatrix(Ty)
        /\ \A c \in Channels : \A k \in Clusters :
            /\ Ty[c][k] = ProbeY(c)
            /\ IF position_manager.superposition = "Superimposed"
               THEN Tx[c][k] = ProbeX(c)
               ELSE /\ RSub(Tx[c][k], Tx[c][0]) = RMul(R(k), Pitch)
                    /\ RAdd(Tx[c][0], Tx[c][data_manager.nclusters - 1])
                            = RMul(R(2), ProbeX(c))

\* more clusters than channels, in every mode, with the probe and the boxes
\* rescaled
C13_Witness ==
    /\ Loaded
    /\ data_manager.nclusters > data_manager.nchannels
    /\ data_manager.nchannels > 1
    /\ position_manager.probe_scale # <<R(1), R(1)>>
    /\ position_manager.box_sizes["Geometrical"] = <<box_size_min, box_size_min>>
    /\ position_manager.spatial_arrangement = "Geometrical"
    /\ position_manager.superposition = "Separated"
    /\ \E c \in Channels : ProbeX(c) # R(0)

(***************************************************************************)
(* Properties of get_data_position.                                        *)
(***************************************************************************)
HalfOpen(r) == {i \in 0 .. data_manager.npoints - 1 : r[1] <= i /\ i < r[2]}

\* the buffer points of the spikes of relative cluster k on channel c
PointsOf(c, k) ==
    {i \in 0 .. data_manager.npoints - 1 :
        /\ full_channels(data_manager)[i] = c
        /\ full_clusters(data_manager)[i] = k}

\* the number of spikes of relative cluster k
SizeOf(k) ==
    Cardinality({s \in 0 .. data_manager.nspikes - 1 : data_manager.clusters_rel[s] = k})

Boxes == Channels \X Clusters

DataPosition(b) == get_data_position(data_manager, b[1], b[2])

\* C14: get_data_position(c, k) is a half-open range of nsamples * size(k)
\* indices that holds exactly the buffer points of the spikes of cluster k on
\* channel c; the ranges of distinct (c, k) are disjoint and cover
\* [0, npoints).
C14_DataPositions ==
    Loaded =>
        /\ \A b \in Boxes :
            /\ 0 <= DataPosition(b)[1]
            /\ DataPosition(b)[2] <= data_manager.npoints
            /\ DataPosition(b)[2] - DataPosition(b)[1]
                    = data_manager.nsamples * SizeOf(b[2])
            /\ HalfOpen(DataPosition(b)) = PointsOf(b[1], b[2])
        /\ \A b1, b2 \in Boxes :
            b1 # b2 => HalfOpen(DataPosition(b1)) \cap HalfOpen(DataPosition(b2)) = {}
        /\ UNION {HalfOpen(DataPosition(b)) : b \in Boxes} = 0 .. data_manager.npoints - 1

\* two channels, clusters of different sizes, several samples per spike
C14_Witness ==
    /\ Loaded
    /\ data_manager.nchannels > 1
    /\ data_manager.nsamples > 1
    /\ \E k1, k2 \in Clusters : SizeOf(k1) > SizeOf(k2) /\ SizeOf(k2) > 1
    /\ DataPosition(<<1, 1>>)[1] > data_manager.nspikes * data_manager.nsamples

(***************************************************************************)
(* Properties of cancel_highlight.                                         *)
(***************************************************************************)
AllZero(mask) == \A i \in DOMAIN mask : mask[i] = 0

\* C15: when the no-event is processed, the highlighted set is empty and the
\* mask all zero immediately afterwards, and an update (of the zero mask) is
\* sent if and only if a non-empty set was highlighted before.
C15_Cancel ==
    [][last'.op = "cancel_highlight" =>
        /\ highlight_manager'.highlighted_spikes = <<>>
        /\ AllZero(highlight_manager'.highlight_mask)
        /\ DOMAIN highlight_manager'.highlight_mask = 0 .. data_manager.npoints - 1
        /\ IF Len(highlight_manager.highlighted_spikes) > 0
           THEN sent' = <<[highlight |-> highlight_manager'.highlight_mask]>>
           ELSE sent' = <<>>]_vars

\* a highlight of several spikes was just cancelled
C15_Witness ==
    /\ last.op = "cancel_highlight"
    /\ Len(sent) = 1
    /\ AllZero(sent[1].highlight)
    /\ highlight_manager.highlighted_spikes = <<>>
    /\ highlight_manager.nspikes > 2

(***************************************************************************)
(* Properties of the separated and the superimposed layouts.               *)
(***************************************************************************)
\* the current box width
BoxWidth == position_manager.box_size[1]

\* the interval [Tx - w/2, Tx + w/2] a box of the current width covers
LeftOf(c, k) == RSub(Tx[c][k], RDiv(BoxWidth, R(2)))

RightOf(c, k) == RAdd(Tx[c][k], RDiv(BoxWidth, R(2)))

\* C16: separated, Tx[c,k] = channel_x[c]*psx + w*(1+2*alpha)*(0.5 + k -
\* nclusters/2) for the current box width w, the centers of consecutive
\* clusters are w*(1+2*alpha) apart, and the boxes of two clusters on one
\* channel do not overlap; superimposed, Tx[c,k] = channel_x[c]*psx.
C16_Separation ==
    Loaded =>
        /\ BoxWidth = load_box_size(position_manager, None).size[1]
        /\ \A c \in Channels : \A k \in Clusters :
            IF position_manager.superposition = "Separated"
            THEN /\ Tx[c][k] =
                        RAdd(ProbeX(c),
                             RMul(RMul(BoxWidth, RAdd(R(1), RMul(R(2), alpha))),
                                  RSub(RAdd(Rat(1, 2), R(k)),
                                       Rat(data_manager.nclusters, 2))))
                 /\ k + 1 \in Clusters =>
                        RSub(Tx[c][k + 1], Tx[c][k])
                            = RMul(BoxWidth, RAdd(R(1), RMul(R(2), alpha)))
                 /\ \A k2 \in Clusters :
                        k < k2 => RLt(RightOf(c, k), LeftOf(c, k2))
            ELSE Tx[c][k] = ProbeX(c)

\* three separated clusters on two channels with electrode positions, the
\* boxes widened by the user and the probe rescaled
C16_Witness ==
    /\ Loaded
    /\ position_manager.superposition = "Separated"
    /\ data_manager.nclusters > 2
    /\ data_manager.nchannels > 1
    /\ position_manager.probe_scale # <<R(1), R(1)>>
    /\ RLt(Rat(1, 2), BoxWidth)
    /\ \E c \in Channels : ProbeX(c) # R(0)
    /\ last.op = "toggle_superposition"

(***************************************************************************)
(* Properties of the linear arrangement.                                   *)
(***************************************************************************)
\* the linear positions normalized now, in the current superposition
LinearNow ==
    normalize_channel_positions(position_manager, Some("Linear"),
                                LinearPositions(position_manager.nchannels))

\* the heights find_box_size computes for the linear arrangement
LinearHeights ==
    {BoxSizeFormula(position_manager, "Linear", sup)[2] : sup \in WaveformSuperposition}

\* the y positions are symmetric about 0, and a box of height h centered on
\* any of them lies within [-1, 1]
FitsViewport(positions, h) ==
    /\ \A c \in DOMAIN positions :
        positions[Cardinality(DOMAIN positions) - 1 - c][2] = RNeg(positions[c][2])
    /\ \A c \in DOMAIN positions :
        RLe(RAdd(RAbs(positions[c][2]), RDiv(h, R(2))), R(1))

\* C17: in the linear arrangement, for every number of channels, the
\* normalized channel y-positions are symmetric about 0 and every channel box
\* of the height h that find_box_size computes lies within [-1, 1]:
\* max |y_c| + h/2 <= 1. (Checked of the positions set_info stored and of the
\* positions normalized in the current superposition, for the computed
\* heights of both superpositions.)
C17_ViewportFit ==
    Loaded =>
        LET now == LinearNow
        IN  /\ DOMAIN now = 0 .. data_manager.nchannels - 1
            /\ \A h \in LinearHeights :
                /\ FitsViewport(position_manager.channel_positions["Linear"], h)
                /\ FitsViewport(now, h)

\* many channels, normalized while superimposed, the outermost box reaching
\* to within a twenty-fifth of its height of the edge of the viewport
C17_Witness ==
    /\ Loaded
    /\ data_manager.nchannels > MaxChannels
    /\ position_manager.superposition = "Superimposed"
    /\ LET top == LinearNow[0][2]
       IN  /\ top # R(0)
           /\ \E h \in LinearHeights :
                RLt(R(1), RAdd(RAdd(RAbs(top), RDiv(h, R(2))), RDiv(h, R(25))))

(***************************************************************************)
(* Properties of the highlight mask and the highlighted spikes.            *)
(***************************************************************************)
Ones(mask) == {i \in DOMAIN mask : mask[i] = 1}

\* a list of distinct spikes of the dataset
DistinctInRange(spikes) ==
    /\ \A j \in DOMAIN spikes : spikes[j] \in 0 .. highlight_manager.nspikes - 1
    /\ \A j1, j2 \in DOMAIN spikes : j1 # j2 => spikes[j1] # spikes[j2]

\* C18: after any sequence of highlights and cancels the mask is the mask of
\* the stored highlighted_spikes: all zero if and only if highlighted_spikes
\* is empty, and otherwise with exactly |highlighted_spikes| * nsamples *
\* nchannels entries equal to 1 (the spikes distinct and in range).
C18_MaskOfStored ==
    (Loaded /\ DistinctInRange(highlight_manager.highlighted_spikes)) =>
        /\ AllZero(highlight_manager.highlight_mask)
                <=> Len(highlight_manager.highlighted_spikes) = 0
        /\ Cardinality(Ones(highlight_manager.highlight_mask))
                = Len(highlight_manager.highlighted_spikes)
                    * highlight_manager.nsamples * highlight_manager.nchannels
        /\ highlight_manager.highlight_mask
                = MaskOf(highlight_manager.highlight_mask,
                         find_indices_from_spikes(highlight_manager,
                             highlight_manager.highlighted_spikes))

\* a box highlight of several, but not all, spikes on several channels
C18_Witness ==
    /\ last.op = "highlighted"
    /\ Len(highlight_manager.highlighted_spikes) > 1
    /\ DistinctInRange(highlight_manager.highlighted_spikes)
    /\ highlight_manager.nchannels > 1
    /\ Cardinality(Ones(highlight_manager.highlight_mask))
            < highlight_manager.npoints

(***************************************************************************)
(* Properties of the box size cache.                                       *)
(***************************************************************************)
OtherArrangement ==
    CHOOSE a \in WaveformSpatialArrangement : a # position_manager.spatial_arrangement

\* the position manager after one change_box_scale(d) more
ScaledBy(d) == change_box_scale(position_manager, d[1], d[2])

\* a change_box_scale changes the cached size of the current arrangement only
OnlyCurrentCache(after) ==
    /\ after.box_sizes[OtherArrangement] = position_manager.box_sizes[OtherArrangement]
    /\ after.box_sizes[position_manager.spatial_arrangement] = after.box_size
    /\ after.probe_scale = position_manager.probe_scale
    /\ after.spatial_arrangement = position_manager.spatial_arrangement
    /\ after.superposition = position_manager.superposition
    /\ after.channel_positions = position_manager.channel_positions

\* the layout is the one of the current position manager
SameLayout(after) ==
    /\ after.spatial_arrangement = position_manager.spatial_arrangement
    /\ after.superposition = position_manager.superposition
    /\ after.box_size = position_manager.box_size
    /\ after.box_positions = position_manager.box_positions
    /\ after.box_sizes[position_manager.spatial_arrangement]
            = position_manager.box_sizes[position_manager.spatial_arrangement]
    /\ after.probe_scale = position_manager.probe_scale

\* C19: the box size is cached per spatial arrangement: change_box_scale
\* changes the cached size of the current arrangement only, and leaves the
\* other arrangement's cache and the probe scale alone; two
\* toggle_spatial_arrangement, or two toggle_superposition, restore the
\* arrangement, the superposition, the box size and the box centers.
C19_CachePerArrangement ==
    Loaded =>
        /\ \A d \in BoxScaleSteps : OnlyCurrentCache(ScaledBy(d))
        /\ last.op = "change_box_scale" =>
                position_manager.box_sizes[position_manager.spatial_arrangement]
                    = position_manager.box_size
        /\ SameLayout(toggle_spatial_arrangement(
                            toggle_spatial_arrangement(position_manager)))
        /\ SameLayout(toggle_superposition(toggle_superposition(position_manager)))
        /\ \A d \in BoxScaleSteps :
                toggle_spatial_arrangement(toggle_spatial_arrangement(ScaledBy(d))).box_size
                    = ScaledBy(d).box_size

\* back in the linear arrangement after a switch away, with the box size the
\* user gave it there, the geometrical arrangement having another one
C19_Witness ==
    /\ last.op = "toggle_spatial_arrangement"
    /\ position_manager.spatial_arrangement = "Linear"
    /\ position_manager.box_size = <<box_size_min, box_size_min>>
    /\ position_manager.box_sizes["Geometrical"] # None
    /\ position_manager.box_sizes["Geometrical"] # position_manager.box_size
    /\ position_manager.box_sizes["Geometrical"]
            # BoxSizeFormula(position_manager, "Geometrical", "Separated")
    /\ data_manager.nclusters > 1

(***************************************************************************)
(* Properties of the spike of a buffer point.                              *)
(***************************************************************************)
Points == 0 .. data_manager.npoints - 1

\* the buffer points that passed the test of the last HighlightSpikeEvent
Matched == {j \in Points : Contributes(j, LastCandidates, LastBox)}

Flag(i) == highlight_manager.highlight_mask[i]

\* C20: for every buffer index i, (i mod (nspikes*nsamples)) div nsamples =
\* (i div nsamples) mod nspikes, and find_indices_from_spikes of that spike
\* contains i; so after highlighted(box) every buffer point that matched has
\* flag 1, and so has every sample of its spike on every channel.
C20_SpikeOfPoint ==
    /\ Loaded =>
        \A i \in Points :
            /\ SpikeIndex(highlight_manager, i)
                    = (i \div highlight_manager.nsamples) % highlight_manager.nspikes
            /\ i \in Range(find_indices_from_spikes(highlight_manager,
                                <<SpikeIndex(highlight_manager, i)>>))
    /\ JustHighlighted =>
        \A j \in Matched :
            /\ Flag(j) = 1
            /\ \A i \in Points :
                SpikeIndex(highlight_manager, i) = SpikeIndex(highlight_manager, j)
                    => Flag(i) = 1

\* points of two spikes matched, one of them on the second channel; a point
\* of that spike on the first channel did not match and is flagged; some
\* point is not flagged
C20_Witness ==
    /\ JustHighlighted
    /\ \E j1, j2 \in Matched :
        /\ j1 >= data_manager.nspikes * data_manager.nsamples
        /\ SpikeIndex(highlight_manager, j1) # SpikeIndex(highlight_manager, j2)
        /\ \E i \in Points \ Matched :
            /\ i < data_manager.nspikes * data_manager.nsamples
            /\ SpikeIndex(highlight_manager, i) = SpikeIndex(highlight_manager, j1)
            /\ Flag(i) = 1
    /\ \E i \in Points : Flag(i) = 0

====
